---- MODULE Spec2Model ----
(***************************************************************************)
(* Model of scikit-digital-health's activity endpoints                     *)
(* (src/src/skdh/activity/endpoints.py) and of the Sleep day loop          *)
(* (src/src/skimu/sleep/sleep.py).                                         *)
(*                                                                         *)
(* Conventions.                                                            *)
(*  - numpy arrays are functions on 0 .. n-1 (Python's 0-based indices).   *)
(*  - Times are kept in SECONDS: the code's minutes are secs / 60, so the  *)
(*    code's factor (wlen / 60) is the factor wlen here.                   *)
(*  - boutcrit is a rational <<num, den>>; `s > n * boutcrit` is           *)
(*    `s * den > n * num`.  Floating point rounding is not modelled.       *)
(*  - A call's outcome is [kind, secs]: kind "return" with the value, or   *)
(*    kind "ValueError" when the exception leaves the function.            *)
(***************************************************************************)
EXTENDS Integers, Sequences, FiniteSets, TLC

\* ------------------------------------------------------------------ bounds
MaxLen == 6        \* longest accm handed to get_activity_bouts in SpecBouts
MaxBoutDur == 3    \* largest boutdur (minutes) in SpecBouts

MaxCalls == 2      \* predict calls in one behaviour of Spec
MaxBlock == 2      \* longest block handed to a predict call in Spec

Vals == {0, 1, 2}                    \* accm values: below, inside, above the level
Wlens == {30, 60}                    \* epoch lengths in seconds
Crits == {<<1, 2>>, <<4, 5>>, <<1, 1>>}   \* boutcrit values 0.5, 0.8, 1
Metrics == {1, 2, 3, 4, 5}           \* boutmetric; 5 is outside {1,2,3,4}

\* ----------------------------------------------------------------- helpers
Size(a) == Cardinality(DOMAIN a)
MinOf(a, b) == IF a < b THEN a ELSE b
MaxOf(a, b) == IF a > b THEN a ELSE b
Arrays(n, S) == [0 .. n - 1 -> S]

\* sum(x[a:b]) with Python's slice truncation at the end of the array
RECURSIVE SumSlice(_, _, _)
SumSlice(x, a, b) ==
    IF a >= MinOf(b, Size(x)) THEN 0 ELSE x[a] + SumSlice(x, a + 1, b)

\* ((accm >= lower_thresh) & (accm < upper_thresh)).astype(int_)
Mask(accm, lower_thresh, upper_thresh) ==
    [k \in DOMAIN accm |->
        IF accm[k] >= lower_thresh /\ accm[k] < upper_thresh THEN 1 ELSE 0]

\* nonzero(x)[0]: the indices of the nonzero entries, ascending (a sequence,
\* so Python's p[j] is NonzeroIdx(x)[j + 1])
RECURSIVE NonzeroFrom(_, _)
NonzeroFrom(x, k) ==
    IF k >= Size(x) THEN << >>
    ELSE (IF x[k] # 0 THEN <<k>> ELSE << >>) \o NonzeroFrom(x, k + 1)
NonzeroIdx(x) == NonzeroFrom(x, 0)

\* skdh.utility.moving_mean(x, w, 1): fails when the window is longer than
\* the sequence, otherwise Size(x) - w + 1 means, entry k over x[k : k + w].
MovingMeanRaises(x, w) == w > Size(x)
\* w * moving_mean(x, w, 1)[k]
MovingSum(x, w, k) == SumSlice(x, k, k + w)

\* int(boutdur * (60 / wlen))
NBoutDur(wlen, boutdur) == (boutdur * 60) \div wlen

Returned(secs) == [kind |-> "return", secs |-> secs, msg |-> ""]
Raised(msg) == [kind |-> "ValueError", secs |-> 0, msg |-> msg]
\* the two ValueErrors that can leave get_activity_bouts
BoutMetricError == Raised("boutmetric must be in {1, 2, 3, 4}.")
MovingMeanError == Raised("moving_mean: window longer than the sequence")

\* mutant: the fraction test made non-strict
FractionAtLeast(s, n, bc) == s * bc[2] >= n * bc[1]
\* `s > n * boutcrit`: the strict fraction test of boutmetric 1 and 2
FractionExceeds(s, n, bc) == s * bc[2] > n * bc[1]

\* ---------------------------------------------------------- boutmetric 1
\* mutant: the extension without its `end < x.size` test
RECURSIVE ExtendEndUnbounded(_, _, _, _)
ExtendEndUnbounded(x, start, end, bc) ==
    IF FractionExceeds(SumSlice(x, start, end + 1), end + 1 - start, bc)
    THEN ExtendEndUnbounded(x, start, end + 1, bc)
    ELSE end
\* the inner while loop that extends `end`
RECURSIVE ExtendEnd(_, _, _, _)
ExtendEnd(x, start, end, bc) ==
    IF FractionExceeds(SumSlice(x, start, end + 1), end + 1 - start, bc)
       /\ end < Size(x)
    THEN ExtendEnd(x, start, end + 1, bc)
    ELSE end

\* `if end < x.size` guarding the window test
Bout1WindowFits(end, size) == end < size

\* the outer while loop over i_mvpa
RECURSIVE Bout1Loop(_, _, _, _, _, _, _, _)
Bout1Loop(x, p, i_mvpa, time_in_bout, wlen, nboutdur, bc, closedbout) ==
    IF i_mvpa >= Len(p) THEN time_in_bout
    ELSE
      LET start == p[i_mvpa + 1]
          end0 == start + nboutdur
      IN IF Bout1WindowFits(end0, Size(x))
            /\ FractionExceeds(SumSlice(x, start, end0), nboutdur, bc)
         THEN
           LET end == ExtendEnd(x, start, end0, bc)
               select == Cardinality({j \in (i_mvpa + 1) .. Len(p) : p[j] < end})
               jump == MaxOf(select, 1)
               lastq == CHOOSE m \in {p[j] : j \in 1 .. Len(p)} :
                           /\ m < end
                           /\ \A j \in 1 .. Len(p) : p[j] < end => p[j] <= m
               add == IF closedbout THEN (lastq - start + 1) * wlen
                                    ELSE select * wlen
           IN Bout1Loop(x, p, i_mvpa + jump, time_in_bout + add,
                        wlen, nboutdur, bc, closedbout)
         ELSE Bout1Loop(x, p, i_mvpa + 1, time_in_bout,
                        wlen, nboutdur, bc, closedbout)

\* the spans <<start, end>> that loop accepts, in order
RECURSIVE Bout1Spans(_, _, _, _, _)
Bout1Spans(x, p, i_mvpa, nboutdur, bc) ==
    IF i_mvpa >= Len(p) THEN << >>
    ELSE
      LET start == p[i_mvpa + 1]
          end0 == start + nboutdur
      IN IF Bout1WindowFits(end0, Size(x))
            /\ FractionExceeds(SumSlice(x, start, end0), nboutdur, bc)
         THEN
           LET end == ExtendEnd(x, start, end0, bc)
               select == Cardinality({j \in (i_mvpa + 1) .. Len(p) : p[j] < end})
           IN <<(<<start, end>>)>>
              \o Bout1Spans(x, p, i_mvpa + MaxOf(select, 1), nboutdur, bc)
         ELSE Bout1Spans(x, p, i_mvpa + 1, nboutdur, bc)

\* ---------------------------------------------------------- boutmetric 2
\* the while loop; yields the final <<x, xt>>
RECURSIVE Bout2Loop(_, _, _, _, _, _)
Bout2Loop(x, xt, p, i_mvpa, nboutdur, bc) ==
    IF i_mvpa >= Len(p) THEN <<x, xt>>
    ELSE
      LET start == p[i_mvpa + 1]
          end == start + nboutdur
      IN IF end < Size(x)
         THEN IF FractionExceeds(SumSlice(x, start, end), nboutdur, bc)
              THEN Bout2Loop(x,
                             [k \in DOMAIN xt |->
                                 IF k >= start /\ k < end THEN 2 ELSE xt[k]],
                             p, i_mvpa + 1, nboutdur, bc)
              ELSE Bout2Loop([x EXCEPT ![start] = 0], xt,
                             p, i_mvpa + 1, nboutdur, bc)
         ELSE IF Len(p) > 1 /\ i_mvpa > 2
              THEN Bout2Loop([x EXCEPT ![start] = x[p[i_mvpa]]], xt,
                             p, i_mvpa + 1, nboutdur, bc)
              ELSE Bout2Loop(x, xt, p, i_mvpa + 1, nboutdur, bc)

\* the starts whose window that loop marks with 2
Bout2Starts(x0, nboutdur, bc) ==
    {k \in DOMAIN x0 :
        /\ x0[k] # 0
        /\ k + nboutdur < Size(x0)
        /\ FractionExceeds(SumSlice(x0, k, k + nboutdur), nboutdur, bc)}

Bout2Time(x0, wlen, nboutdur, bc) ==
    LET r == Bout2Loop(x0, [k \in DOMAIN x0 |-> 0], NonzeroIdx(x0), 0, nboutdur, bc)
        x == [k \in DOMAIN x0 |-> IF r[2][k] = 2 THEN 1 ELSE r[1][k]]
    IN SumSlice(x, 0, Size(x)) * wlen

\* ------------------------------------------------------ boutmetric 3 and 4
\* mutant: the break window without the +1 that tolerates one-minute breaks
BreakWindowOneMinute(wlen) == 60 \div wlen
\* N = int(60 / wlen) + 1
BreakWindow(wlen) == (60 \div wlen) + 1
\* i1 = int(floor((N + 1) / 2)) - 1
BreakI1(N) == ((N + 1) \div 2) - 1
\* i2 = int(ceil(x.size - N / 2))
BreakI2(size, N) == size - (N \div 2)

\* lookforbreaks == 0 at k: k is outside [i1, i2), where the zeros of the
\* initial array stay, or the N-window placed there holds no qualifying epoch
LookForBreaksZero(x, N, k) ==
    \/ k < BreakI1(N)
    \/ k >= BreakI2(Size(x), N)
    \/ MovingSum(x, N, k - BreakI1(N)) = 0

\* -(60 / wlen) * nboutdur, stored into an integer array
Penalty(wlen, nboutdur) == -((60 * nboutdur) \div wlen)

\* xt after `xt[lookforbreaks == 0] = -(60 / wlen) * nboutdur`
Penalised(x, wlen, nboutdur) ==
    [k \in DOMAIN x |->
        IF LookForBreaksZero(x, BreakWindow(wlen), k)
        THEN Penalty(wlen, nboutdur) ELSE x[k]]

\* mutant: the moving-average test made non-strict
PassingStartsAtLeast(xt, nboutdur, bc) ==
    {k \in 0 .. Size(xt) - nboutdur :
        MovingSum(xt, nboutdur, k) * bc[2] >= nboutdur * bc[1]}
\* nonzero(rm > boutcrit)[0] as a set of window starts
PassingStarts(xt, nboutdur, bc) ==
    {k \in 0 .. Size(xt) - nboutdur :
        MovingSum(xt, nboutdur, k) * bc[2] > nboutdur * bc[1]}

\* mutant: only the first epoch of the window is required to qualify
BoundaryStartsFirstOnly(x, p, nboutdur) == {k \in p : x[k] = 1}
\* p[nonzero((x[p] == 1) & (x[p + nboutdur - 1] == 1))]
BoundaryStarts(x, p, nboutdur) ==
    {k \in p : x[k] = 1 /\ x[k + nboutdur - 1] = 1}

\* the epochs marked 2 by the `for gi in range(nboutdur)` loop
Covered(p, nboutdur, size) ==
    {j \in 0 .. size - 1 : \E k \in p : j >= k /\ j < k + nboutdur}

Bout3Starts(x, wlen, nboutdur, bc) ==
    PassingStarts(Penalised(x, wlen, nboutdur), nboutdur, bc)

Bout4Starts(x, wlen, nboutdur, bc) ==
    BoundaryStarts(x, Bout3Starts(x, wlen, nboutdur, bc), nboutdur)

\* boutmetric 3 (boundary = FALSE) and 4 (boundary = TRUE)
Bout34(x, wlen, nboutdur, bc, boundary) ==
    IF MovingMeanRaises(x, BreakWindow(wlen))
    THEN MovingMeanError              \* line 160 / 186: outside the try
    ELSE IF MovingMeanRaises(x, nboutdur)
    THEN Returned(0)                  \* except ValueError: return 0.0
    ELSE LET p == IF boundary THEN Bout4Starts(x, wlen, nboutdur, bc)
                              ELSE Bout3Starts(x, wlen, nboutdur, bc)
         IN Returned(Cardinality(Covered(p, nboutdur, Size(x))) * wlen)

\* ------------------------------------------------------ get_activity_bouts
\* mutant: the early return misses sequences one epoch short of W
TooShortOffByOne(size, nboutdur) == size < nboutdur - 1
\* `if accm.size < nboutdur: return time_in_bout`
TooShort(size, nboutdur) == size < nboutdur

GetActivityBouts(accm, lower_thresh, upper_thresh, wlen, boutdur, bc, closedbout, boutmetric) ==
    LET nboutdur == NBoutDur(wlen, boutdur)
        x == Mask(accm, lower_thresh, upper_thresh)
    IN IF TooShort(Size(accm), nboutdur) THEN Returned(0)
       ELSE IF boutmetric = 1
       THEN Returned(Bout1Loop(x, NonzeroIdx(x), 0, 0, wlen, nboutdur, bc,
                               closedbout))
       ELSE IF boutmetric = 2 THEN Returned(Bout2Time(x, wlen, nboutdur, bc))
       ELSE IF boutmetric = 3 THEN Bout34(x, wlen, nboutdur, bc, FALSE)
       ELSE IF boutmetric = 4 THEN Bout34(x, wlen, nboutdur, bc, TRUE)
       ELSE BoutMetricError

\* ------------------------------------------------------------------ state
VARIABLES
    accm, lower_thresh, upper_thresh, wlen, boutdur, boutcrit, closedbout,
    boutmetric,      \* the arguments of one get_activity_bouts call
    ret,             \* its outcome, kind "none" before the call
    pc,              \* "call" before, "done" after
    calc,            \* the class of the endpoint instance of this behaviour
    constructed,     \* __init__ has returned
    self,            \* the instance's attributes
    results,         \* the results dict: column -> array over the days
    epoch_s,         \* predict's epoch_s; epochs_per_min is 60 / epoch_s
    raised,          \* the exception that left the last call, or "none"
    lastop,          \* the last operation on the instance
    ncalls,          \* predict calls so far
    fed,             \* the blocks cached since the last reset_cached
    lastcall,        \* the arguments i, accel_metric of the latest predict
    params,          \* Sleep._params, the registered metric classes
    min_wear_time,   \* Sleep's min_wear_time, in hours
    days_ds,         \* the days handed to Sleep.predict
    sleep,           \* Sleep.predict's results table: column -> list
    init_params,     \* the instantiated metrics, in order
    iday,            \* the day the loop of Sleep.predict is at
    invoked,         \* the metric predict calls made so far: <<iday, name>>
    spc,             \* Sleep.predict's position: "setup", "loop", "done"
    inst,            \* the Sleep instance predict is called on
    adders,          \* the Sleep instances whose add_metrics has returned
    add_raised,      \* the exception that left the last add_metrics, or "none"
    nadds            \* add_metrics calls so far

boutVars == <<accm, lower_thresh, upper_thresh, wlen, boutdur, boutcrit,
              closedbout, boutmetric, ret, pc>>
calcVars == <<calc, constructed, self, results, epoch_s, raised, lastop,
              ncalls, fed, lastcall>>
sleepVars == <<params, min_wear_time, days_ds, sleep, init_params, iday,
               invoked, spc, inst, adders, add_raised, nadds>>
vars == <<boutVars, calcVars, sleepVars>>

NoOutcome == [kind |-> "none", secs |-> 0, msg |-> ""]

\* one call of get_activity_bouts on the drawn arguments
CallGetActivityBouts ==
    /\ pc = "call"
    /\ ret' = GetActivityBouts(accm, lower_thresh, upper_thresh, wlen, boutdur,
                               boutcrit, closedbout, boutmetric)
    /\ pc' = "done"
    /\ UNCHANGED <<accm, lower_thresh, upper_thresh, wlen, boutdur, boutcrit,
                   closedbout, boutmetric>>
    /\ UNCHANGED <<calcVars, sleepVars>>

NoInstance == [name |-> << >>]
\* no predict call yet
NoCall == [i |-> 0 - 1, block |-> << >>]

\* Sleep.predict takes no part in the specifications of the activity code
NoSleep ==
    /\ params = << >>
    /\ min_wear_time = 0
    /\ days_ds = << >>
    /\ sleep = << >>
    /\ init_params = << >>
    /\ iday = 0
    /\ invoked = << >>
    /\ spc = "none"
    /\ inst = "none"
    /\ adders = {}
    /\ add_raised = "none"
    /\ nadds = 0

\* no endpoint instance takes part in the get_activity_bouts specifications
NoCalculator ==
    /\ calc = "none"
    /\ constructed = FALSE
    /\ self = NoInstance
    /\ results = << >>
    /\ epoch_s = 60
    /\ raised = "none"
    /\ lastop = "init"
    /\ ncalls = 0
    /\ fed = << >>
    /\ lastcall = NoCall

InitBouts ==
    /\ \E n \in 0 .. MaxLen : accm \in Arrays(n, Vals)
    /\ lower_thresh = 1
    /\ upper_thresh = 2
    /\ wlen \in Wlens
    /\ boutdur \in 1 .. MaxBoutDur
    /\ boutcrit \in Crits
    /\ closedbout \in BOOLEAN
    /\ boutmetric \in Metrics
    /\ ret = NoOutcome
    /\ pc = "call"
    /\ NoCalculator
    /\ NoSleep

NextBouts == CallGetActivityBouts

SpecBouts == InitBouts /\ [][NextBouts]_vars

\* The end-to-end scenarios: epoch 60 s, 10 minute bouts, boutcrit 0.8,
\* lower 0.1, upper 100.0, boutmetric 1, twelve epochs of 0.0 or 1.0.
\* Values and thresholds are in tenths (0.1 is 1, 1.0 is 10, 100.0 is 1000).
InitScenario ==
    /\ accm \in Arrays(12, {0, 10})
    /\ lower_thresh = 1
    /\ upper_thresh = 1000
    /\ wlen = 60
    /\ boutdur = 10
    /\ boutcrit = <<4, 5>>
    /\ closedbout \in BOOLEAN
    /\ boutmetric = 1
    /\ ret = NoOutcome
    /\ pc = "call"
    /\ NoCalculator
    /\ NoSleep

SpecScenario == InitScenario /\ [][NextBouts]_vars

\* ====================================================== endpoint classes
\* One behaviour of Spec drives one endpoint instance (its class is `calc`)
\* through __init__, predict and reset_cached against a results dict that
\* holds the columns of all five classes.  Result values are records
\* [kind, v, of]: NaN, a number Num(v) (times in seconds, a moving mean as
\* its window sum), or Stat(name, data), the statistic `name` computed by
\* scipy / skdh.utility from `data`.
Calcs == {"IntensityGradient", "MaxAcceleration", "TotalIntensityTime",
          "BoutIntensityTime", "FragmentationEndpoints"}
Days == {0, 1}
Lengths == {<<1, 2>>, <<2, 1>>}      \* window_lengths / bout_lengths lists
IGVals == {30, 5000}                 \* accel_metric values in mg for the histogram
FragVals == {0, 1}                   \* accel_metric_60 values: below, inside the level
BoutVals == {0, 1}                   \* accel_metric values for BoutIntensityTime
BoutCrits == {<<1, 2>>, <<1, 1>>}    \* bout_criteria of BoutIntensityTime

\* Python's None; self.i holds None or the one-tuple <<i>>
None == <<"None", 0>>
NaN == [kind |-> "nan", v |-> 0, of |-> {}]
Num(n) == [kind |-> "num", v |-> n, of |-> {}]
Stat(name, data) == [kind |-> name, v |-> 0, of |-> data]

\* the column names built by ActivityEndpoint.__init__ (state = "wake")
IGNames == << <<"wake intensity gradient", 0>>, <<"wake ig intercept", 0>>,
              <<"wake ig r-squared", 0>> >>
MaxName(l) == <<"wake max acc min [g]", l>>
TotalName == <<"wake MVPA epoch [min]", 0>>
BoutName(l) == <<"wake MVPA min bout [min]", l>>
FragNames == << <<"wake MVPA avg duration", 0>>,
                <<"wake MVPA transition probability", 0>>,
                <<"wake MVPA gini index", 0>>,
                <<"wake MVPA avg hazard", 0>>,
                <<"wake MVPA power law distribution", 0>> >>
Range(f) == {f[k] : k \in DOMAIN f}
Columns == Range(IGNames) \cup Range(FragNames) \cup {TotalName}
           \cup {MaxName(l) : l \in {1, 2}} \cup {BoutName(l) : l \in {1, 2}}

\* the 161 histogram bins: edges 0, 25, ..., 4000, 8000 mg
NBins == 161
Bins == 0 .. NBins - 1
\* the bin numpy.histogram puts v in; the last bin is closed on the right
\* and values outside [0, 8000] are dropped (bin -1)
BinOf(v) ==
    IF v < 0 \/ v > 8000 THEN 0 - 1
    ELSE IF v >= 4000 THEN NBins - 1
    ELSE v \div 25
CountIn(block, b) == Cardinality({k \in DOMAIN block : BinOf(block[k]) = b})
ZeroHist == [b \in Bins |-> 0]

\* ---- __init__ of each class
IGInit ==
    [name |-> IGNames, hist |-> ZeroHist,
     ig |-> None, ig_int |-> None, ig_r |-> None, i |-> None]
MaxInit(window_lengths) ==
    [name |-> [k \in DOMAIN window_lengths |-> MaxName(window_lengths[k])],
     wlens |-> window_lengths]
TotalInit ==
    [name |-> TotalName, lthresh |-> 1, uthresh |-> 2]
BoutInit(bout_lengths, bout_criteria, bout_metric, closed_bout) ==
    [name |-> [k \in DOMAIN bout_lengths |-> BoutName(bout_lengths[k])],
     blens |-> bout_lengths, bcrit |-> bout_criteria, bmetric |-> bout_metric,
     cbout |-> closed_bout, lthresh |-> 1, uthresh |-> 2]
FragInit ==
    [name |-> FragNames, lthresh |-> 1, uthresh |-> 2, lens |-> << >>,
     r_ad |-> None, r_tp |-> None, r_gi |-> None, r_ah |-> None,
     r_pld |-> None, i |-> None]

\* __init__: no class checks its arguments; BoutIntensityTime stores
\* bout_metric as given
Construct ==
    /\ ~constructed
    /\ \/ calc = "IntensityGradient" /\ self' = IGInit
       \/ calc = "MaxAcceleration" /\ \E wl \in Lengths : self' = MaxInit(wl)
       \/ calc = "TotalIntensityTime" /\ self' = TotalInit
       \/ calc = "BoutIntensityTime"
          /\ \E bl \in Lengths, bc \in BoutCrits, bm \in Metrics, cb \in BOOLEAN :
                self' = BoutInit(bl, bc, bm, cb)
       \/ calc = "FragmentationEndpoints" /\ self' = FragInit
    /\ constructed' = TRUE
    /\ raised' = "none"
    /\ lastop' = "construct"
    /\ UNCHANGED <<calc, results, epoch_s, ncalls, fed, lastcall>>
    /\ UNCHANGED <<boutVars, sleepVars>>

CanPredict(c) == constructed /\ calc = c /\ ncalls < MaxCalls
EpochsPerMinute == 60 \div epoch_s

\* ---- IntensityGradient
\* self.hist += histogram(accel_metric, bins=self.ig_levels)[0] / epochs_per_min
\* (minutes per bin, kept in seconds)
HistAdd(hist, block, es) == [b \in Bins |-> hist[b] + CountIn(block, b) * es]

IGPredict ==
    /\ CanPredict("IntensityGradient")
    /\ \E i \in Days, n \in 0 .. MaxBlock : \E accel_metric \in Arrays(n, IGVals) :
          /\ self' = [self EXCEPT !.hist = HistAdd(@, accel_metric, epoch_s),
                                  !.ig = self.name[1],
                                  !.ig_int = self.name[2],
                                  !.ig_r = self.name[3],
                                  !.i = <<i>>]
          /\ fed' = Append(fed, accel_metric)
          /\ lastcall' = [i |-> i, block |-> accel_metric]
    /\ ncalls' = ncalls + 1
    /\ raised' = "none"
    /\ lastop' = "predict"
    /\ UNCHANGED <<calc, constructed, results, epoch_s>>
    /\ UNCHANGED <<boutVars, sleepVars>>

\* all([i is not None for i in [self.ig, self.ig_int, self.ig_r, self.i]])
IGHasPointers(me) ==
    me.ig # None /\ me.ig_int # None /\ me.ig_r # None /\ me.i # None

\* mutant: the regression is attempted whatever the number of points
IGValuesAlwaysRegress(hist) ==
    LET pts == {<<b, hist[b]>> : b \in {c \in Bins : hist[c] > 0}}
    IN <<Stat("linregress slope", pts), Stat("linregress intercept", pts),
         Stat("linregress rvalue squared", pts)>>
\* the three values computed from the histogram
IGValues(hist) ==
    LET nz == {b \in Bins : hist[b] > 0}
        pts == {<<b, hist[b]>> : b \in nz}
    IN IF Cardinality(nz) <= 1
       THEN <<NaN, NaN, NaN>>
       ELSE <<Stat("linregress slope", pts), Stat("linregress intercept", pts),
              Stat("linregress rvalue squared", pts)>>

\* mutants: a reset that keeps the pointer, the histogram
KeptPointer(ptr) == ptr
KeptHist(hist) == hist
\* `self.ig = None` and the like
ClearedPointer(ptr) == None
\* `self.hist = zeros(self.ig_vals.size)`
ClearedHist(hist) == ZeroHist

IGResetCached ==
    /\ constructed /\ calc = "IntensityGradient"
    /\ results' =
         IF IGHasPointers(self)
         THEN LET val == IGValues(self.hist)
                  i == self.i[1]
              IN [c \in Columns |->
                    IF c = self.ig_r THEN [results[c] EXCEPT ![i] = val[3]]
                    ELSE IF c = self.ig_int THEN [results[c] EXCEPT ![i] = val[2]]
                    ELSE IF c = self.ig THEN [results[c] EXCEPT ![i] = val[1]]
                    ELSE results[c]]
         ELSE results
    /\ self' = [self EXCEPT !.hist = ClearedHist(@),
                            !.ig = ClearedPointer(@),
                            !.ig_int = ClearedPointer(@),
                            !.ig_r = ClearedPointer(@),
                            !.i = ClearedPointer(@)]
    /\ fed' = << >>
    /\ raised' = "none"
    /\ lastop' = "reset_cached"
    /\ UNCHANGED <<calc, constructed, epoch_s, ncalls, lastcall>>
    /\ UNCHANGED <<boutVars, sleepVars>>

\* ---- MaxAcceleration
\* mutant: the block's maximum overwrites the prior value
NanMaxOverwrite(tmp_max, prior) == Num(tmp_max)
\* nanmax([tmp_max, prior])
NanMax(tmp_max, prior) ==
    IF prior.kind = "nan" THEN Num(tmp_max) ELSE Num(MaxOf(tmp_max, prior.v))

\* mutant: the first window instead of the largest
FirstMovingSum(block, n) == MovingSum(block, n, 0)
\* max(moving_mean(accel_metric, n, 1)), as a window sum
MaxMovingSum(block, n) ==
    LET sums == {MovingSum(block, n, k) : k \in 0 .. Size(block) - n}
    IN CHOOSE m \in sums : \A t \in sums : t <= m

\* the loop over zip(self.wlens, self.name) from position k on
RECURSIVE MaxLoop(_, _, _, _, _, _)
MaxLoop(me, res, k, i, block, epm) ==
    IF k > Len(me.wlens) THEN res
    ELSE LET n == me.wlens[k] * epm
         IN IF MovingMeanRaises(block, n)
            THEN res                    \* except ValueError: return
            ELSE MaxLoop(me,
                         [res EXCEPT ![me.name[k]][i] =
                             NanMax(MaxMovingSum(block, n), @)],
                         k + 1, i, block, epm)

MaxPredict ==
    /\ CanPredict("MaxAcceleration")
    /\ \E i \in Days, n \in 0 .. MaxBlock : \E accel_metric \in Arrays(n, Vals) :
          /\ results' = MaxLoop(self, results, 1, i, accel_metric, EpochsPerMinute)
          /\ lastcall' = [i |-> i, block |-> accel_metric]
    /\ ncalls' = ncalls + 1
    /\ raised' = "none"
    /\ lastop' = "predict"
    /\ UNCHANGED <<calc, constructed, self, epoch_s, fed>>
    /\ UNCHANGED <<boutVars, sleepVars>>

\* ---- TotalIntensityTime
\* mutant: the block's time overwrites the slot
OverwriteTime(prior, secs) == IF prior.kind = "nan" THEN NaN ELSE Num(secs)
\* results[name][i] += minutes (NaN stays NaN)
AddTime(prior, secs) == IF prior.kind = "nan" THEN NaN ELSE Num(prior.v + secs)

TotalPredict ==
    /\ CanPredict("TotalIntensityTime")
    /\ \E i \in Days, n \in 0 .. MaxBlock : \E accel_metric \in Arrays(n, Vals) :
          LET x == Mask(accel_metric, self.lthresh, self.uthresh)
              time == SumSlice(x, 0, Size(x))
          IN /\ results' = [results EXCEPT ![self.name][i] = AddTime(@, time * epoch_s)]
             /\ lastcall' = [i |-> i, block |-> accel_metric]
    /\ ncalls' = ncalls + 1
    /\ raised' = "none"
    /\ lastop' = "predict"
    /\ UNCHANGED <<calc, constructed, self, epoch_s, fed>>
    /\ UNCHANGED <<boutVars, sleepVars>>

\* ---- BoutIntensityTime
\* the loop over zip(self.blens, self.name) from position k on; an exception
\* from get_activity_bouts leaves the loop with the earlier slots written
RECURSIVE BoutLoop(_, _, _, _, _, _)
BoutLoop(me, res, k, i, block, es) ==
    IF k > Len(me.blens) THEN [results |-> res, raised |-> "none"]
    ELSE LET r == GetActivityBouts(block, me.lthresh, me.uthresh, es,
                                   me.blens[k], me.bcrit, me.cbout, me.bmetric)
         IN IF r.kind = "ValueError"
            THEN [results |-> res, raised |-> r.msg]
            ELSE BoutLoop(me,
                          [res EXCEPT ![me.name[k]][i] = AddTime(@, r.secs)],
                          k + 1, i, block, es)

BoutPredict ==
    /\ CanPredict("BoutIntensityTime")
    /\ \E i \in Days, n \in 0 .. MaxBlock : \E accel_metric \in Arrays(n, BoutVals) :
          LET out == BoutLoop(self, results, 1, i, accel_metric, epoch_s)
          IN /\ results' = out.results
             /\ raised' = out.raised
             /\ lastcall' = [i |-> i, block |-> accel_metric]
    /\ ncalls' = ncalls + 1
    /\ lastop' = "predict"
    /\ UNCHANGED <<calc, constructed, self, epoch_s, fed>>
    /\ UNCHANGED <<boutVars, sleepVars>>

\* ---- FragmentationEndpoints
\* lens[vals == 1] of rle(mask): the lengths of the maximal runs of True,
\* in order; `run` is the length of the run that ends just before k
RECURSIVE RunLengthsFrom(_, _, _)
RunLengthsFrom(mask, k, run) ==
    IF k >= Size(mask) THEN (IF run > 0 THEN <<run>> ELSE << >>)
    ELSE IF mask[k] = 1 THEN RunLengthsFrom(mask, k + 1, run + 1)
    ELSE (IF run > 0 THEN <<run>> ELSE << >>) \o RunLengthsFrom(mask, k + 1, 0)
\* mutant: the lengths of every run of rle(mask), the False ones included
RECURSIVE AllRunsFrom(_, _, _)
AllRunsFrom(mask, k, run) ==
    IF k >= Size(mask) THEN (IF run > 0 THEN <<run>> ELSE << >>)
    ELSE IF k > 0 /\ mask[k] # mask[k - 1]
         THEN <<run>> \o AllRunsFrom(mask, k + 1, 1)
         ELSE AllRunsFrom(mask, k + 1, run + 1)
RunLengthsUnfiltered(mask) == AllRunsFrom(mask, 0, 0)
RunLengths(mask) == RunLengthsFrom(mask, 0, 0)

FragPredict ==
    /\ CanPredict("FragmentationEndpoints")
    /\ \E i \in Days, n \in 1 .. MaxBlock : \E accel_metric_60 \in Arrays(n, FragVals) :
          /\ self' = [self EXCEPT
                        !.lens = @ \o RunLengths(Mask(accel_metric_60,
                                                      self.lthresh, self.uthresh)),
                        !.r_ad = self.name[1],
                        !.r_tp = self.name[2],
                        !.r_gi = self.name[3],
                        !.r_ah = self.name[4],
                        !.r_pld = self.name[5],
                        !.i = <<i>>]
          /\ fed' = Append(fed, accel_metric_60)
          /\ lastcall' = [i |-> i, block |-> accel_metric_60]
    /\ ncalls' = ncalls + 1
    /\ raised' = "none"
    /\ lastop' = "predict"
    /\ UNCHANGED <<calc, constructed, results, epoch_s>>
    /\ UNCHANGED <<boutVars, sleepVars>>

\* all([i is not None for i in [self.r_ad, ..., self.r_pld, self.i]])
FragHasPointers(me) ==
    /\ me.r_ad # None /\ me.r_tp # None /\ me.r_gi # None
    /\ me.r_ah # None /\ me.r_pld # None /\ me.i # None

\* fe.<statistic>(lengths=self.lens): NaN on an empty list
FragStat(name, lens) ==
    IF lens = << >> THEN NaN
    ELSE Stat(name, {<<k, lens[k]>> : k \in DOMAIN lens})

FragResetCached ==
    /\ constructed /\ calc = "FragmentationEndpoints"
    /\ results' =
         IF FragHasPointers(self)
         THEN LET i == self.i[1]
              IN [c \in Columns |->
                    IF c = self.r_pld
                    THEN [results[c] EXCEPT ![i] = FragStat("state_power_law_distribution", self.lens)]
                    ELSE IF c = self.r_ah
                    THEN [results[c] EXCEPT ![i] = FragStat("average_hazard", self.lens)]
                    ELSE IF c = self.r_gi
                    THEN [results[c] EXCEPT ![i] = FragStat("gini_index", self.lens)]
                    ELSE IF c = self.r_tp
                    THEN [results[c] EXCEPT ![i] = FragStat("state_transition_probability", self.lens)]
                    ELSE IF c = self.r_ad
                    THEN [results[c] EXCEPT ![i] = FragStat("average_duration", self.lens)]
                    ELSE results[c]]
         ELSE results
    /\ self' = [self EXCEPT !.lens = << >>,
                            !.r_ad = ClearedPointer(@),
                            !.r_tp = ClearedPointer(@),
                            !.r_gi = ClearedPointer(@),
                            !.r_ah = ClearedPointer(@),
                            !.r_pld = ClearedPointer(@),
                            !.i = ClearedPointer(@)]
    /\ fed' = << >>
    /\ raised' = "none"
    /\ lastop' = "reset_cached"
    /\ UNCHANGED <<calc, constructed, epoch_s, ncalls, lastcall>>
    /\ UNCHANGED <<boutVars, sleepVars>>

\* ---- ActivityEndpoint.reset_cached, inherited by MaxAcceleration,
\* TotalIntensityTime and BoutIntensityTime: `pass`
BaseResetCached ==
    /\ constructed
    /\ calc \in {"MaxAcceleration", "TotalIntensityTime", "BoutIntensityTime"}
    /\ raised' = "none"
    /\ lastop' = "reset_cached"
    /\ UNCHANGED <<calc, constructed, self, results, epoch_s, ncalls, fed, lastcall>>
    /\ UNCHANGED <<boutVars, sleepVars>>

\* the results dict as the caller reserves it: the summed columns at 0,
\* the others at NaN
InitResults ==
    [c \in Columns |->
        [d \in Days |->
            IF c = TotalName \/ c \in {BoutName(l) : l \in {1, 2}}
            THEN Num(0) ELSE NaN]]

Init ==
    /\ calc \in Calcs
    /\ constructed = FALSE
    /\ self = NoInstance
    /\ results = InitResults
    /\ epoch_s \in Wlens
    /\ raised = "none"
    /\ lastop = "init"
    /\ ncalls = 0
    /\ fed = << >>
    /\ lastcall = NoCall
    /\ NoSleep
    /\ accm = << >> /\ lower_thresh = 1 /\ upper_thresh = 2 /\ wlen = 60
    /\ boutdur = 1 /\ boutcrit = <<1, 2>> /\ closedbout = FALSE
    /\ boutmetric = 1 /\ ret = NoOutcome /\ pc = "idle"

Next ==
    \/ Construct
    \/ IGPredict
    \/ IGResetCached
    \/ MaxPredict
    \/ TotalPredict
    \/ BoutPredict
    \/ FragPredict
    \/ FragResetCached
    \/ BaseResetCached

Spec == Init /\ [][Next]_vars

\* ============================================================ Sleep.predict
\* One behaviour of SpecSleep is one call of Sleep.predict on a list of days.
\* A day is what the loop reads of it: its duration and its wear time in
\* hours, and whether get_total_sleep_opportunity finds a window.
MaxDays == 2
MaxAdds == 1                         \* add_metrics calls before the predict call
MinDayHours == 6
DayKinds == [hours : {5, 8}, wear : {3, 8}, tso : BOOLEAN]
MetaColumns == {"Day N", "Date", "TSO Start Timestamp", "TSO Start", "TSO Duration"}
\* Sleep._params as the class defines it
DefaultParams ==
    <<"TotalSleepTime", "PercentTimeAsleep", "NumberWakeBouts",
      "SleepOnsetLatency", "WakeAfterSleepOnset", "AverageSleepDuration",
      "AverageWakeDuration", "SleepWakeTransitionProbability",
      "WakeSleepTransitionProbability", "SleepGiniIndex", "WakeGiniIndex",
      "SleepAverageHazard", "WakeAverageHazard", "SleepPowerLawDistribution",
      "WakePowerLawDistribution">>
\* param().name: the column of a metric class
MetricName(cls) ==
    CASE cls = "TotalSleepTime" -> "total sleep time"
      [] cls = "PercentTimeAsleep" -> "percent time asleep"
      [] cls = "NumberWakeBouts" -> "number of wake bouts"
      [] cls = "SleepOnsetLatency" -> "sleep onset latency"
      [] cls = "WakeAfterSleepOnset" -> "wake after sleep onset"
      [] cls = "AverageSleepDuration" -> "average sleep duration"
      [] cls = "AverageWakeDuration" -> "average wake duration"
      [] cls = "SleepWakeTransitionProbability" -> "sleep wake transition probability"
      [] cls = "WakeSleepTransitionProbability" -> "wake sleep transition probability"
      [] cls = "SleepGiniIndex" -> "sleep gini index"
      [] cls = "WakeGiniIndex" -> "wake gini index"
      [] cls = "SleepAverageHazard" -> "sleep average hazard"
      [] cls = "WakeAverageHazard" -> "wake average hazard"
      [] cls = "SleepPowerLawDistribution" -> "sleep power law distribution"
      [] cls = "WakePowerLawDistribution" -> "wake power law distribution"
      [] cls = "NewSleepMetric" -> "metric name"
      [] cls = "OtherSleepMetric" -> "other metric name"
SleepColumns(ps) == MetaColumns \cup {MetricName(ps[k]) : k \in DOMAIN ps}

\* mutant: a row reserved with zeros
AppendZero(col) == Append(col, Num(0))
\* sleep[k].append(nan)
AppendNaN(col) == Append(col, NaN)
ReserveRow(tbl) == [c \in DOMAIN tbl |-> AppendNaN(tbl[c])]
\* mutant: the first row is written
SetFirst(tbl, c, v) == [tbl EXCEPT ![c] = [@ EXCEPT ![1] = v]]
\* sleep[c][-1] = v
SetLast(tbl, c, v) == [tbl EXCEPT ![c] = [@ EXCEPT ![Len(@)] = v]]

\* `(stop - start) / (3600 * goal_fs) < self.min_day_hrs`
ShortDay(day) == day.hours < MinDayHours
\* `sum(dw_stops - dw_starts) / (3600 * goal_fs) < self.min_wear_time`
LowWear(day, minwear) == day.wear < minwear
\* `tso[0] is None`
NoTSO(day) == ~day.tso

\* the row reserved for day d with its day number and date
WithDayAndDate(tbl, d) ==
    SetLast(SetLast(ReserveRow(tbl), "Day N", Num(d + 1)), "Date", Stat("date", {d}))
\* the three TSO columns of the last row
WithTSO(tbl, d) ==
    SetLast(SetLast(SetLast(tbl, "TSO Start Timestamp", Stat("tso[0]", {d})),
                    "TSO Start", Stat("tso[0] string", {d})),
            "TSO Duration", Stat("tso duration", {d}))
\* `for param in init_params: sleep[param.name][-1] = param.predict(...)`
RECURSIVE WithMetrics(_, _, _, _)
WithMetrics(tbl, ps, k, d) ==
    IF k > Len(ps) THEN tbl
    ELSE WithMetrics(SetLast(tbl, MetricName(ps[k]), Stat(ps[k], {d})),
                     ps, k + 1, d)
\* mutant: the metrics called last to first
MetricCallsReversed(ps, d) == [k \in DOMAIN ps |-> <<d, ps[Len(ps) + 1 - k]>>]
\* the predict calls that loop makes, in order
MetricCalls(ps, d) == [k \in DOMAIN ps |-> <<d, ps[k]>>]

\* the Sleep instances of one process
Instances == {"a", "b"}
\* user classes: two subclasses of SleepMetric and a class that is not one
NewMetrics == {"NewSleepMetric", "OtherSleepMetric"}
\* `isinstance(cls(), SleepMetric)`
IsSleepMetric(cls) == cls \in Range(DefaultParams) \cup NewMetrics
\* the arguments of add_metrics: one class, or an iterable of classes
AddArgs ==
    {[iterable |-> FALSE, items |-> <<c>>] : c \in NewMetrics \cup {"NotAMetric"}}
    \cup {[iterable |-> TRUE, items |-> q] :
             q \in {<<"OtherSleepMetric", "NewSleepMetric">>,
                    <<"NewSleepMetric", "NotAMetric">>}}
\* `self._params.extend(metrics)` and `self._params.append(metrics)`: the
\* list object is the class attribute, no instance has a list of its own
ExtendParams(ps, items) == ps \o items

\* one add_metrics call on the instance `on`; every class is registered at
\* most once
AddMetrics ==
    /\ spc = "setup" /\ nadds < MaxAdds
    /\ \E on \in Instances, metrics \in AddArgs :
          /\ \A k \in DOMAIN metrics.items : metrics.items[k] \notin Range(params)
          /\ IF \A k \in DOMAIN metrics.items : IsSleepMetric(metrics.items[k])
             THEN /\ params' = ExtendParams(params, metrics.items)
                  /\ adders' = adders \cup {on}
                  /\ add_raised' = "none"
             ELSE /\ add_raised' = "ValueError"
                  /\ UNCHANGED <<params, adders>>
    /\ nadds' = nadds + 1
    /\ UNCHANGED <<min_wear_time, days_ds, sleep, init_params, iday, invoked,
                   spc, inst>>
    /\ UNCHANGED <<boutVars, calcVars>>

\* the storage set up before the loop
SleepSetup ==
    /\ spc = "setup"
    /\ sleep' = [c \in SleepColumns(params) |-> << >>]
    /\ init_params' = params
    /\ iday' = 0
    /\ spc' = "loop"
    /\ UNCHANGED <<params, min_wear_time, days_ds, invoked>>
    /\ UNCHANGED <<inst, adders, add_raised, nadds>>
    /\ UNCHANGED <<boutVars, calcVars>>

\* one iteration of `for iday, day_idx in enumerate(days_ds)`
SleepDay ==
    /\ spc = "loop" /\ iday < Len(days_ds)
    /\ LET day == days_ds[iday + 1]
       IN IF ShortDay(day)
          THEN UNCHANGED <<sleep, invoked>>
          ELSE IF LowWear(day, min_wear_time) \/ NoTSO(day)
          THEN /\ sleep' = WithDayAndDate(sleep, iday)
               /\ UNCHANGED invoked
          ELSE /\ sleep' = WithMetrics(WithTSO(WithDayAndDate(sleep, iday), iday),
                                       init_params, 1, iday)
               /\ invoked' = invoked \o MetricCalls(init_params, iday)
    /\ iday' = iday + 1
    /\ UNCHANGED <<params, min_wear_time, days_ds, init_params, spc>>
    /\ UNCHANGED <<inst, adders, add_raised, nadds>>
    /\ UNCHANGED <<boutVars, calcVars>>

\* the loop is over: `return sleep`
SleepReturn ==
    /\ spc = "loop" /\ iday = Len(days_ds)
    /\ spc' = "done"
    /\ UNCHANGED <<params, min_wear_time, days_ds, sleep, init_params, iday, invoked>>
    /\ UNCHANGED <<inst, adders, add_raised, nadds>>
    /\ UNCHANGED <<boutVars, calcVars>>

\* no get_activity_bouts call takes part
NoBoutCall ==
    /\ accm = << >> /\ lower_thresh = 1 /\ upper_thresh = 2 /\ wlen = 60
    /\ boutdur = 1 /\ boutcrit = <<1, 2>> /\ closedbout = FALSE
    /\ boutmetric = 1 /\ ret = NoOutcome /\ pc = "idle"

InitSleep ==
    /\ params = DefaultParams
    /\ min_wear_time \in {0, 6}
    /\ \E n \in 0 .. MaxDays : days_ds \in [1 .. n -> DayKinds]
    /\ sleep = << >>
    /\ init_params = << >>
    /\ iday = 0
    /\ invoked = << >>
    /\ spc = "setup"
    /\ inst \in Instances
    /\ adders = {}
    /\ add_raised = "none"
    /\ nadds = 0
    /\ NoCalculator
    /\ NoBoutCall

NextSleep ==
    \/ AddMetrics
    \/ SleepSetup
    \/ SleepDay
    \/ SleepReturn

SpecSleep == InitSleep /\ [][NextSleep]_vars

\* the endpoint instances and Sleep.predict, each with its results table
InitTables == Init \/ InitSleep
NextTables == Next \/ NextSleep
SpecTables == InitTables /\ [][NextTables]_vars

\* ================================================================= claims
\* shorthands for the state of one get_activity_bouts call
X == Mask(accm, lower_thresh, upper_thresh)
W == NBoutDur(wlen, boutdur)
EpochsPerMin == 60 \div wlen
Done == pc = "done"
ValidMetric == boutmetric \in {1, 2, 3, 4}
AllQualify == \A k \in DOMAIN X : X[k] = 1
NoneQualify == \A k \in DOMAIN X : X[k] = 0

\* C3: for boutmetric 1..4 a sequence of N >= W epochs that all qualify
\* returns N * wlen / 60 minutes, the whole sequence (N = W included).
\* Stated for the bout fractions below 1, where a fully qualifying window
\* passes the strict fraction test.
C3_FullyQualifyingWholeDuration ==
    (Done /\ ValidMetric /\ Size(accm) >= W /\ AllQualify
          /\ boutcrit[1] < boutcrit[2])
        => ret = Returned(Size(accm) * wlen)

\* the twelve-epoch scenario inputs, in tenths
AllActive == [k \in 0 .. 11 |-> 10]
GapAt5And6 == [k \in 0 .. 11 |-> IF k \in {5, 6} THEN 0 ELSE 10]

\* C4 (as claimed): with epochs 5 and 6 at 0.0 the scenario returns 12
\* minutes when closedbout is True and 10 minutes when it is False.
C4_GapScenarioAsClaimed ==
    (Done /\ accm = GapAt5And6)
        => ret = Returned(IF closedbout THEN 12 * 60 ELSE 10 * 60)

\* C4 (amended): with epochs 5 and 6 at 0.0 the scenario returns 0 minutes
\* for both closedbout values: no 10-epoch window that fits before the end
\* holds more than 8 qualifying epochs.
C4_GapScenarioReturnsZero ==
    (Done /\ accm = GapAt5And6) => ret = Returned(0)

C4_Witness == Done /\ accm = GapAt5And6 /\ closedbout

\* C5: for boutmetric 1..4 a sequence with no qualifying epoch returns 0
\* minutes, whatever its length.
C5_NoQualifyingEpochZero ==
    (Done /\ ValidMetric /\ NoneQualify) => ret = Returned(0)

\* C6: with boutmetric outside {1,2,3,4} the call fails with ValueError for
\* every sequence, short and empty ones included; it never returns a number.
C6_InvalidMetricRaises ==
    (Done /\ ~ValidMetric) => ret = BoutMetricError

\* C7: for boutmetric 1..4 no error leaves get_activity_bouts; when a moving
\* mean window (W, or the break window of policies 3 and 4) exceeds the
\* sequence the call returns 0 minutes.
C7_NeverPropagatesError ==
    (Done /\ ValidMetric) =>
        /\ ret.kind = "return"
        /\ (boutmetric \in {3, 4}
            /\ (MovingMeanRaises(X, W) \/ MovingMeanRaises(X, BreakWindow(wlen))))
               => ret = Returned(0)

\* C9: for boutmetric 1..4 a sequence shorter than W returns 0, no error.
C9_ShortSequenceZero ==
    (Done /\ ValidMetric /\ Size(accm) < W) => ret = Returned(0)

C9_Witness ==
    /\ Done /\ ValidMetric /\ Size(accm) < W
    /\ \E k \in DOMAIN X : X[k] = 1

\* ---- C10: break tolerance of policies 3 and 4
\* the window starts accepted by the policy of this call
AcceptedStarts(x) ==
    IF boutmetric = 4 THEN Bout4Starts(x, wlen, W, boutcrit)
                      ELSE Bout3Starts(x, wlen, W, boutcrit)

\* [b, b + len) is a maximal run of non-qualifying epochs of x
BreakRun(x, b, len) ==
    /\ len >= 1 /\ b >= 0 /\ b + len <= Size(x)
    /\ \A j \in b .. b + len - 1 : x[j] = 0
    /\ (b > 0 => x[b - 1] = 1)
    /\ (b + len < Size(x) => x[b + len] = 1)

\* the W-window at k holds the run [b, b + len) strictly inside and
\* qualifies everywhere else
OneBreakWindow(x, k, b, len) ==
    /\ k >= 0 /\ k + W <= Size(x)
    /\ k < b /\ b + len < k + W
    /\ \A j \in k .. k + W - 1 : (x[j] = 0) <=> (j >= b /\ j < b + len)

\* x with the run [b, b + len) replaced by qualifying epochs
Filled(x, b, len) == [j \in DOMAIN x |-> IF j >= b /\ j < b + len THEN 1 ELSE x[j]]

\* a break of exactly one minute does not drop its window: the window is
\* accepted whenever the same window without the break is
OneMinuteBreakTolerated ==
    \A k \in DOMAIN X : \A b \in DOMAIN X :
        (/\ OneBreakWindow(X, k, b, EpochsPerMin)
         /\ (W - EpochsPerMin) * boutcrit[2] > W * boutcrit[1]
         /\ k \in AcceptedStarts(Filled(X, b, EpochsPerMin)))
        => /\ k \in AcceptedStarts(X)
           /\ \A j \in k .. k + W - 1 : j \in Covered(AcceptedStarts(X), W, Size(X))

\* every W-window holding a whole two-minute break is rejected
TwoMinuteBreakRejected ==
    \A b \in DOMAIN X :
        BreakRun(X, b, 2 * EpochsPerMin) =>
            \A k \in 0 .. Size(X) - W :
                (k <= b /\ b + 2 * EpochsPerMin <= k + W) => k \notin AcceptedStarts(X)

\* no epoch of a two-minute break is counted
TwoMinuteBreakNeverCounted ==
    \A b \in DOMAIN X :
        BreakRun(X, b, 2 * EpochsPerMin) =>
            \A j \in b .. b + 2 * EpochsPerMin - 1 :
                j \notin Covered(AcceptedStarts(X), W, Size(X))

Policy34Returned == Done /\ boutmetric \in {3, 4} /\ ret.kind = "return" /\ Size(X) >= W

\* C10 (as claimed): under policies 3 and 4 a one-minute break inside an
\* otherwise qualifying span above bout_fraction does not drop the span's
\* window, a two-minute break excludes every window that contains it, and
\* no epoch of a two-minute break is ever counted.
C10_BreaksAsClaimed ==
    Policy34Returned =>
        /\ OneMinuteBreakTolerated
        /\ TwoMinuteBreakRejected
        /\ TwoMinuteBreakNeverCounted

\* C10 (amended): under policies 3 and 4 a one-minute break inside an
\* otherwise qualifying span above bout_fraction does not drop the span's
\* window, and a two-minute break excludes every W-window that contains the
\* whole break (its end epochs may still be counted by a window that
\* overlaps only part of it).
C10_BreakTolerance ==
    Policy34Returned => (OneMinuteBreakTolerated /\ TwoMinuteBreakRejected)

\* a call that accepted a window with a one-minute break inside, on a
\* sequence that also holds a two-minute break inside some W-window
C10_Witness ==
    /\ Policy34Returned
    /\ \E k \in DOMAIN X : \E b \in DOMAIN X :
            /\ OneBreakWindow(X, k, b, EpochsPerMin)
            /\ k \in AcceptedStarts(X)
    /\ \E b \in DOMAIN X : \E k \in 0 .. Size(X) - W :
            /\ BreakRun(X, b, 2 * EpochsPerMin)
            /\ k <= b /\ b + 2 * EpochsPerMin <= k + W

\* ---- claims about the endpoint classes (Spec)
\* the accumulation state of a freshly constructed instance
FreshInstance ==
    IF calc = "IntensityGradient" THEN self = IGInit
    ELSE IF calc = "FragmentationEndpoints" THEN self = FragInit
    ELSE TRUE

\* C1: reset_cached with no predict since construction or since the last
\* reset_cached raises nothing and leaves every slot of results unchanged,
\* for every class and any number of such calls in a row.
C1_ResetWithoutPredictChangesNothing ==
    [][(lastop \in {"construct", "reset_cached"} /\ lastop' = "reset_cached")
          => (results' = results /\ raised' = "none")]_vars

C1_Witness == lastop = "reset_cached" /\ ncalls = 0 /\ fed = << >>

\* the histogram and the run lengths of the blocks in `fed` alone
RECURSIVE HistOfBlocks(_, _)
HistOfBlocks(blocks, es) ==
    IF blocks = << >> THEN ZeroHist
    ELSE HistAdd(HistOfBlocks(SubSeq(blocks, 1, Len(blocks) - 1), es),
                 blocks[Len(blocks)], es)
RECURSIVE LensOfBlocks(_)
LensOfBlocks(blocks) ==
    IF blocks = << >> THEN << >>
    ELSE LensOfBlocks(SubSeq(blocks, 1, Len(blocks) - 1))
         \o RunLengths(Mask(blocks[Len(blocks)], 1, 2))

FragStatNames == <<"average_duration", "state_transition_probability",
                   "gini_index", "average_hazard",
                   "state_power_law_distribution">>

\* what a writing reset_cached leaves in slot i comes from the blocks fed
\* since the last reset_cached and from nothing else
WrittenFromFedOnly ==
    /\ (calc = "IntensityGradient" /\ IGHasPointers(self)) =>
          \A k \in 1 .. 3 :
             results'[IGNames[k]][self.i[1]] = IGValues(HistOfBlocks(fed, epoch_s))[k]
    /\ (calc = "FragmentationEndpoints" /\ FragHasPointers(self)) =>
          \A k \in 1 .. 5 :
             results'[FragNames[k]][self.i[1]]
                = FragStat(FragStatNames[k], LensOfBlocks(fed))

\* C2: after every reset_cached, writing or not, the accumulation state is
\* that of a freshly constructed instance (histogram zero, lens empty, all
\* pointers and i None), and the values written depend only on the blocks
\* ingested since the previous reset_cached.
C2_ResetRestoresFreshState ==
    [][lastop' = "reset_cached" => (FreshInstance' /\ WrittenFromFedOnly)]_vars

\* a reset_cached that wrote a regression result
C2_Witness ==
    /\ lastop = "reset_cached" /\ calc = "IntensityGradient" /\ self = IGInit
    /\ \E d \in Days : results[IGNames[1]][d].kind = "linregress slope"

\* C8: BoutIntensityTime rejects an invalid bout metric at construction,
\* and once constructed no predict or reset_cached raises the
\* configuration error.
C8_ConfigErrorOnlyAtConstruction ==
    (calc = "BoutIntensityTime" /\ constructed) =>
        /\ self.bmetric \in {1, 2, 3, 4}
        /\ (lastop \in {"predict", "reset_cached"} => raised # BoutMetricError.msg)

\* ---- claims about MaxAcceleration (Spec)
\* the two halves one after the other
Concat(a, b) ==
    [k \in 0 .. Size(a) + Size(b) - 1 |->
        IF k < Size(a) THEN a[k] ELSE b[k - Size(a)]]
\* the sums of all stride-1 windows of n epochs of x, and the largest of a set
WindowSums(x, n) == {SumSlice(x, k, k + n) : k \in 0 .. Size(x) - n}
Largest(S) == CHOOSE m \in S : \A t \in S : t <= m
\* a step that is a MaxAcceleration.predict call
MaxStep == calc = "MaxAcceleration" /\ lastop' = "predict" /\ ncalls' = ncalls + 1
\* the k-th configured window length in epochs
WindowEpochs(k) == self.wlens[k] * EpochsPerMinute
AllWindowsFit(block) ==
    \A k \in DOMAIN self.wlens : WindowEpochs(k) <= Size(block)
\* the second of two predict calls for the same day, every window fitting
\* both blocks; the slots held their reserved value before the first call
SecondHalfStep ==
    /\ MaxStep /\ ncalls = 1
    /\ lastcall.i = lastcall'.i
    /\ AllWindowsFit(lastcall.block) /\ AllWindowsFit(lastcall'.block)
\* the table one predict call with both halves concatenated leaves
OnceWithConcatenation ==
    MaxLoop(self, InitResults, 1, lastcall'.i,
            Concat(lastcall.block, lastcall'.block), EpochsPerMinute)

\* C11 as stated: predict once per half leaves the same slots as predict
\* once with the concatenated sequence.
C11_HalvesEqualConcatenation ==
    [][SecondHalfStep => results' = OnceWithConcatenation]_vars

\* C11: predict once per half leaves in each slot the larger of the two
\* halves' own maximum window means; that value never exceeds the one left
\* by a single predict on the concatenated sequence, and equals it when the
\* window is one epoch long.
C11_HalvesGiveMaxOfHalves ==
    [][SecondHalfStep =>
         \A k \in DOMAIN self.wlens :
            LET n == WindowEpochs(k)
                i == lastcall'.i
                both == WindowSums(lastcall.block, n) \cup WindowSums(lastcall'.block, n)
                once == OnceWithConcatenation[self.name[k]][i]
            IN /\ results'[self.name[k]][i] = Num(Largest(both))
               /\ once.kind = "num" /\ Largest(both) <= once.v
               /\ (n = 1 => Largest(both) = once.v)]_vars

\* two calls were made for the same day with every window fitting both
\* blocks: every slot of the latest call's day holds more than the latest
\* block alone gives, so the first call wrote all of them
C11_Witness ==
    /\ calc = "MaxAcceleration" /\ lastop = "predict" /\ ncalls = 2
    /\ AllWindowsFit(lastcall.block)
    /\ \A k \in DOMAIN self.wlens :
          /\ results[self.name[k]][lastcall.i].kind = "num"
          /\ results[self.name[k]][lastcall.i].v
                > Largest(WindowSums(lastcall.block, WindowEpochs(k)))
    /\ \E k \in DOMAIN self.wlens : WindowEpochs(k) > 1

\* the larger of a slot's prior value and m, a NaN prior counting as absent
LargerOf(prior, m) ==
    IF prior.kind = "nan" \/ prior.v < m THEN Num(m) ELSE prior

\* C12: a window length that exceeds the block is skipped for that call
\* only: no error, its slot unchanged, and every other window length that
\* fits, wherever it is in the configured list, has its slot updated with
\* the block's maximum moving mean.
C12_LongWindowSkippedAlone ==
    [][MaxStep =>
         /\ raised' = "none"
         /\ \A k \in DOMAIN self.wlens :
               LET c == self.name[k]
                   i == lastcall'.i
                   n == WindowEpochs(k)
               IN IF n > Size(lastcall'.block)
                  THEN results'[c][i] = results[c][i]
                  ELSE results'[c][i]
                          = LargerOf(results[c][i],
                                     Largest(WindowSums(lastcall'.block, n)))]_vars

\* the loop of this predict call reached the k-th window length
Processed(k) == \A j \in 1 .. k : WindowEpochs(j) <= Size(lastcall'.block)
\* a slot value that is not below the one before
NotBelow(after, before) ==
    before.kind = "nan" \/ (after.kind = "num" /\ after.v >= before.v)

\* C13: for each window length a predict call for day i processes, slot i
\* afterwards is the larger of its prior value and the block's maximum
\* stride-1 moving mean, a NaN prior counting as absent; no slot ever
\* decreases.
C13_RunningMaximum ==
    [][calc = "MaxAcceleration" =>
         /\ MaxStep =>
              \A k \in DOMAIN self.wlens :
                 Processed(k) =>
                    results'[self.name[k]][lastcall'.i]
                       = LargerOf(results[self.name[k]][lastcall'.i],
                                  Largest(WindowSums(lastcall'.block,
                                                     WindowEpochs(k))))
         /\ \A c \in Columns : \A d \in Days :
               NotBelow(results'[c][d], results[c][d])]_vars

\* a predict call whose block's maximum is below the value already in the
\* slot, which is kept
C13_Witness ==
    /\ calc = "MaxAcceleration" /\ lastop = "predict"
    /\ WindowEpochs(1) <= Size(lastcall.block)
    /\ results[self.name[1]][lastcall.i].kind = "num"
    /\ results[self.name[1]][lastcall.i].v
          > Largest(WindowSums(lastcall.block, WindowEpochs(1)))

\* ---- claims about TotalIntensityTime and BoutIntensityTime (Spec)
\* the epochs of a block with lthresh <= v < uthresh
QualifyingEpochs(block, lo, hi) ==
    Cardinality({k \in DOMAIN block : lo <= block[k] /\ block[k] < hi})
\* a step that is a predict call of class c
PredictStep(c) == calc = c /\ lastop' = "predict" /\ ncalls' = ncalls + 1
\* every slot but the listed columns' slot i is as before
OnlySlotsChanged(cols, i) ==
    \A c \in Columns : \A d \in Days :
        (c \notin cols \/ d # i) => results'[c][d] = results[c][d]
\* the seconds get_activity_bouts gives for the block of the latest call and
\* the k-th bout length
BoutContribution(me, call, k) ==
    GetActivityBouts(call.block, me.lthresh, me.uthresh, epoch_s, me.blens[k],
                     me.bcrit, me.cbout, me.bmetric)

\* C14: each predict call of TotalIntensityTime and of BoutIntensityTime
\* adds the block's contribution to slot i (the qualifying epochs divided
\* by epochs_per_min; get_activity_bouts of the block, per bout length, when
\* it returns) and changes nothing else, so the slot holds the sum of the
\* contributions since it held 0; reset_cached changes nothing.
C14_PredictAccumulates ==
    [][/\ PredictStep("TotalIntensityTime") =>
            /\ results'[self.name][lastcall'.i]
                  = Num(results[self.name][lastcall'.i].v
                        + QualifyingEpochs(lastcall'.block, self.lthresh,
                                           self.uthresh) * epoch_s)
            /\ OnlySlotsChanged({self.name}, lastcall'.i)
       /\ (PredictStep("BoutIntensityTime") /\ raised' = "none") =>
            /\ \A k \in DOMAIN self.blens :
                  results'[self.name[k]][lastcall'.i]
                     = Num(results[self.name[k]][lastcall'.i].v
                           + BoutContribution(self, lastcall', k).secs)
            /\ OnlySlotsChanged(Range(self.name), lastcall'.i)
       /\ (calc \in {"TotalIntensityTime", "BoutIntensityTime"}
           /\ lastop' = "reset_cached") =>
            (results' = results /\ self' = self)]_vars

\* a BoutIntensityTime slot that holds more than the latest block's own
\* positive contribution: an earlier call's minutes were kept and added to
C14_Witness ==
    /\ calc = "BoutIntensityTime" /\ lastop = "predict" /\ raised = "none"
    /\ ncalls = 2
    /\ BoutContribution(self, lastcall, 1).secs > 0
    /\ results[self.name[1]][lastcall.i].v
          > BoutContribution(self, lastcall, 1).secs

\* ---- claims about IntensityGradient (Spec)
\* the seconds the blocks fed since the last reset_cached spent in bin b
FedSecondsIn(b) ==
    Cardinality({jk \in {<<j, k>> : j \in DOMAIN fed, k \in 0 .. MaxBlock} :
                    /\ jk[2] \in DOMAIN fed[jk[1]]
                    /\ BinOf(fed[jk[1]][jk[2]]) = b}) * epoch_s
FedNonzeroBins == {b \in Bins : FedSecondsIn(b) > 0}
FedPoints == {<<b, FedSecondsIn(b)>> : b \in FedNonzeroBins}
IGStatNames == <<"linregress slope", "linregress intercept",
                 "linregress rvalue squared">>

\* C15: reset_cached after at least one predict writes slope, intercept and
\* R-squared into slot i of the latest predict; with fewer than two nonzero
\* bins over the predict calls since the last reset all three are NaN, and
\* otherwise they are the regression on the summed histogram.
C15_GradientWrittenOrNaN ==
    [][(calc = "IntensityGradient" /\ lastop' = "reset_cached" /\ fed # << >>) =>
          \A k \in 1 .. 3 :
             results'[IGNames[k]][lastcall.i] =
                IF Cardinality(FedNonzeroBins) < 2 THEN NaN
                ELSE Stat(IGStatNames[k], FedPoints)]_vars

\* a reset_cached that wrote NaN after predict calls that filled one bin
C15_Witness ==
    /\ calc = "IntensityGradient" /\ lastop = "reset_cached" /\ ncalls = 2
    /\ Size(lastcall.block) > 0
    /\ \A k \in 1 .. 3 : results[IGNames[k]][lastcall.i] = NaN

\* ---- claims about the results tables (SpecTables, SpecSleep)
\* the columns an endpoint instance names
OwnColumns(me) ==
    IF calc = "TotalIntensityTime" THEN {me.name} ELSE Range(me.name)
\* rows 1 .. n of every column of the sleep table are as before
RowsKept(n) ==
    \A c \in DOMAIN sleep : \A r \in 1 .. n :
        r <= Len(sleep[c]) => sleep'[c][r] = sleep[c][r]

\* C16: a predict call writes only slot i of its own columns for the i it
\* was passed, reset_cached only slot i of its own columns for the i of the
\* latest predict, and an iteration of the Sleep day loop only the last row;
\* earlier days' slots and other calculators' columns never change.
C16_WritesConfinedToCurrentDay ==
    [][/\ results' # results =>
            \A c \in Columns : \A d \in Days :
               results'[c][d] # results[c][d] =>
                  /\ c \in OwnColumns(self)
                  /\ d = (IF lastop' = "predict" THEN lastcall'.i ELSE lastcall.i)
                  /\ lastop' = "reset_cached" => self.i = <<d>>
       /\ (spc = "loop" /\ sleep' # sleep) =>
            /\ DOMAIN sleep' = DOMAIN sleep
            /\ \A c \in DOMAIN sleep :
                  /\ Len(sleep'[c]) = Len(sleep[c]) + 1
                  /\ RowsKept(Len(sleep'[c]) - 1)]_vars

\* Sleep.predict filled a second row and the first is still there
C16_Witness ==
    /\ spc = "loop" /\ iday = 2
    /\ Len(sleep["Day N"]) = 2
    /\ sleep["Day N"][1] = Num(1) /\ sleep["Day N"][2] = Num(2)
    /\ sleep["total sleep time"][1] = Stat("TotalSleepTime", {0})
    /\ sleep["total sleep time"][2] = Stat("TotalSleepTime", {1})

\* the day passes the three checks of the loop
Accepted(day) == day.hours >= MinDayHours /\ day.wear >= min_wear_time /\ day.tso
AcceptedDays(n) == {d \in 0 .. n - 1 : Accepted(days_ds[d + 1])}
MetricColumns == DOMAIN sleep \ MetaColumns
\* row r has its day number or date but no metric value
EmptyDayRow(r) ==
    /\ sleep["Day N"][r] # NaN \/ sleep["Date"][r] # NaN
    /\ \A c \in MetricColumns : sleep[c][r] = NaN

\* C17: a day skipped for short duration, for low wear or for want of a TSO
\* window contributes no row: the returned table has one row per day that
\* passed all three checks, and no row with Day N or Date filled and all
\* metric columns NaN.
C17_SkippedDayLeavesNoRow ==
    spc = "done" =>
        /\ \A c \in DOMAIN sleep :
              Len(sleep[c]) = Cardinality(AcceptedDays(Len(days_ds)))
        /\ \A r \in 1 .. Len(sleep["Day N"]) : ~EmptyDayRow(r)

\* the values an iteration of the loop for day d can write
WrittenForDay(d) ==
    {Num(d + 1), Stat("date", {d}), Stat("tso[0]", {d}),
     Stat("tso[0] string", {d}), Stat("tso duration", {d})}
    \cup {Stat(params[k], {d}) : k \in DOMAIN params}

\* C18: at the end of every iteration of the day loop the five metadata
\* columns and the column of every registered metric have the same length,
\* and every cell of a row reserved in the iteration holds NaN unless the
\* iteration wrote that day's value into it.
C18_ColumnsAlignedRowsStartNaN ==
    [][(spc = "loop" /\ iday' = iday + 1) =>
          /\ DOMAIN sleep' = SleepColumns(params)
          /\ \A c \in DOMAIN sleep' : Len(sleep'[c]) = Len(sleep'["Day N"])
          /\ \A c \in DOMAIN sleep' :
                Len(sleep'[c]) > Len(sleep[c]) =>
                   /\ sleep'[c][Len(sleep'[c])] \in {NaN} \cup WrittenForDay(iday)
                   /\ (~Accepted(days_ds[iday + 1]) /\ c \notin {"Day N", "Date"})
                         => sleep'[c][Len(sleep'[c])] = NaN]_vars

\* a row was reserved for a day that was then rejected
C18_Witness ==
    /\ spc = "loop" /\ iday >= 1
    /\ Len(sleep["Day N"]) >= 1
    /\ sleep["Day N"][Len(sleep["Day N"])] = Num(iday)
    /\ \A c \in DOMAIN sleep \ {"Day N", "Date"} : sleep[c][Len(sleep[c])] = NaN

\* the position of a metric class in _params
ParamIndex(cls) == CHOOSE k \in DOMAIN params : params[k] = cls

\* C19: no metric is invoked for a rejected day; for every accepted day
\* each registered metric is invoked exactly once, in the order of _params;
\* the days are taken strictly in input order.
C19_MetricsOncePerAcceptedDayInOrder ==
    /\ [](spc \in {"loop", "done"} =>
            /\ \A j \in DOMAIN invoked : invoked[j][1] \in AcceptedDays(iday)
            /\ \A d \in AcceptedDays(iday) : \A k \in DOMAIN params :
                  Cardinality({j \in DOMAIN invoked : invoked[j] = <<d, params[k]>>}) = 1
            /\ \A j \in DOMAIN invoked :
                  j < Len(invoked) =>
                     \/ invoked[j][1] < invoked[j + 1][1]
                     \/ /\ invoked[j][1] = invoked[j + 1][1]
                        /\ ParamIndex(invoked[j][2]) < ParamIndex(invoked[j + 1][2]))
    /\ [][(spc = "loop" /\ sleep' # sleep) =>
             (iday' = iday + 1 /\ sleep'["Day N"][Len(sleep'["Day N"])] = Num(iday + 1))]_vars

\* a rejected day followed by an accepted one
C19_Witness ==
    /\ spc = "done" /\ Len(days_ds) = 2
    /\ ~Accepted(days_ds[1]) /\ Accepted(days_ds[2])
    /\ Len(invoked) = Len(params)

\* ---- claims about the spans of boutmetric 1 (SpecBouts)
AcceptedSpans == Bout1Spans(X, NonzeroIdx(X), 0, W, boutcrit)
\* the qualifying epochs in [a, b)
QualifyingIn(a, b) == {k \in DOMAIN X : a <= k /\ k < b /\ X[k] = 1}
\* the seconds one accepted span adds
SpanSeconds(sp) ==
    IF closedbout
    THEN ((CHOOSE m \in QualifyingIn(sp[1], sp[2]) :
              \A k \in QualifyingIn(sp[1], sp[2]) : k <= m) - sp[1] + 1) * wlen
    ELSE Cardinality(QualifyingIn(sp[1], sp[2])) * wlen
RECURSIVE SumSpans(_, _)
SumSpans(spans, j) ==
    IF j > Len(spans) THEN 0 ELSE SpanSeconds(spans[j]) + SumSpans(spans, j + 1)

\* C20: under policy 1 every accepted span [start, end) starts at a
\* qualifying epoch, is at least W long, lies within the sequence and holds
\* strictly more than bout_fraction * (end - start) qualifying epochs; the
\* next span starts at the first qualifying index at or after end, so spans
\* are disjoint and the returned time is their sum, between 0 and the
\* duration of the sequence, for both closedbout values.
C20_Policy1SpansDisjoint ==
    (Done /\ boutmetric = 1) =>
        LET spans == AcceptedSpans
        IN /\ ret.kind = "return"
           /\ \A j \in DOMAIN spans :
                 LET start == spans[j][1]
                     end == spans[j][2]
                 IN /\ start \in DOMAIN X /\ X[start] = 1
                    /\ end - start >= W
                    /\ end <= Size(X)
                    /\ Cardinality(QualifyingIn(start, end)) * boutcrit[2]
                          > (end - start) * boutcrit[1]
                    /\ j < Len(spans) =>
                          /\ end <= spans[j + 1][1]
                          /\ QualifyingIn(end, spans[j + 1][1]) = {}
           /\ ret.secs = SumSpans(spans, 1)
           /\ 0 <= ret.secs /\ ret.secs <= Size(X) * wlen

\* two accepted spans, one of them extended beyond W
C20_Witness ==
    /\ Done /\ boutmetric = 1
    /\ Len(AcceptedSpans) >= 2
    /\ \E j \in DOMAIN AcceptedSpans :
          AcceptedSpans[j][2] - AcceptedSpans[j][1] > W

\* ---- more claims about boutmetric 1 (SpecBouts)
\* the qualifying indices the scan reaches: those not inside an accepted
\* span that started earlier
ScanReaches ==
    {s \in DOMAIN X :
        /\ X[s] = 1
        /\ \A j \in DOMAIN AcceptedSpans :
              ~(AcceptedSpans[j][1] < s /\ s < AcceptedSpans[j][2])}
\* the W epochs from s on lie inside the sequence and pass the fraction test
FullWindowPasses(s) ==
    /\ s + W <= Size(X)
    /\ Cardinality(QualifyingIn(s, s + W)) * boutcrit[2] > W * boutcrit[1]

\* C21: under policy 1, at every qualifying index the scan reaches whose
\* next W epochs lie inside the sequence (start + W <= N) and hold more than
\* bout_fraction * W qualifying epochs a bout is accepted and contributes
\* time, a window that ends exactly at the last epoch included.
C21_PassingWindowAccepted ==
    (Done /\ boutmetric = 1 /\ W >= 1) =>
        \A s \in ScanReaches :
            FullWindowPasses(s) =>
                /\ \E j \in DOMAIN AcceptedSpans : AcceptedSpans[j][1] = s
                /\ ret.kind = "return" /\ ret.secs > 0

\* ---- claims about boutmetric 2 (SpecBouts)
\* the overlay: the epochs covered by a W-window that starts at a qualifying
\* epoch and passes the fraction test; `last` tells whether a window that
\* ends exactly at the last epoch is among them
Overlay(last) ==
    {j \in DOMAIN X :
        \E k \in DOMAIN X :
           /\ X[k] = 1
           /\ (IF last THEN k + W <= Size(X) ELSE k + W < Size(X))
           /\ Cardinality(QualifyingIn(k, k + W)) * boutcrit[2] > W * boutcrit[1]
           /\ k <= j /\ j < k + W}

\* C22: under policy 2 the returned time counts exactly the overlay epochs,
\* whatever their mask value, and no epoch outside the overlay, qualifying
\* epochs in the last W positions that cannot start a full window included.
\* The count is bounded by the overlay without and with the window that
\* ends at the last epoch, so that the reading of "full window" is open.
C22_OnlyOverlayCounted ==
    (Done /\ boutmetric = 2 /\ W >= 1) =>
        /\ ret.kind = "return"
        /\ Cardinality(Overlay(FALSE)) * wlen <= ret.secs
        /\ ret.secs <= Cardinality(Overlay(TRUE)) * wlen

\* ---- claims about boutmetric 3 and 4 (SpecBouts)
\* the outcome of the same call under boutmetric 3
SameCallPolicy3 ==
    GetActivityBouts(accm, lower_thresh, upper_thresh, wlen, boutdur, boutcrit,
                     closedbout, 3)
\* the epochs counted under boutmetric 3 and under boutmetric 4
Counted3 == Covered(Bout3Starts(X, wlen, W, boutcrit), W, Size(X))
Counted4 == Covered(Bout4Starts(X, wlen, W, boutcrit), W, Size(X))
\* the sum over the W-window at k of the mask with its penalised epochs
PenalisedSum(k) ==
    Cardinality({j \in k .. k + W - 1 :
                    X[j] = 1 /\ ~LookForBreaksZero(X, BreakWindow(wlen), j)})
    + Cardinality({j \in k .. k + W - 1 :
                      LookForBreaksZero(X, BreakWindow(wlen), j)})
      * Penalty(wlen, W)

\* C23: the epochs counted under policy 4 are among those counted under
\* policy 3 for the same input and parameters, so the time under policy 4
\* is at most that under policy 3; every window accepted under policy 4 has
\* mask value 1 at its first and its last epoch and a penalised moving
\* average above bout_fraction.
C23_Policy4WithinPolicy3 ==
    (Done /\ boutmetric = 4 /\ ret.kind = "return") =>
        /\ SameCallPolicy3.kind = "return"
        /\ ret.secs <= SameCallPolicy3.secs
        /\ Counted4 \subseteq Counted3
        /\ ret.secs = Cardinality(Counted4) * wlen
        /\ SameCallPolicy3.secs = Cardinality(Counted3) * wlen
        /\ \A k \in Bout4Starts(X, wlen, W, boutcrit) :
              /\ k >= 0 /\ k + W <= Size(X)
              /\ X[k] = 1 /\ X[k + W - 1] = 1
              /\ PenalisedSum(k) * boutcrit[2] > W * boutcrit[1]

\* policy 4 accepts a window and counts fewer epochs than policy 3
C23_Witness ==
    /\ Done /\ boutmetric = 4 /\ ret.kind = "return"
    /\ ret.secs > 0
    /\ ret.secs < SameCallPolicy3.secs

\* ---- the strictness of the fraction test (SpecBouts)
\* the starts of the W-windows the policy of this call accepts
AcceptedWindowStarts ==
    IF boutmetric = 1 THEN {AcceptedSpans[j][1] : j \in DOMAIN AcceptedSpans}
    ELSE IF boutmetric = 2 THEN Bout2Starts(X, W, boutcrit)
    ELSE AcceptedStarts(X)
\* the epochs policy 2 marks, from the loop itself
Bout2Marked ==
    LET r == Bout2Loop(X, [k \in DOMAIN X |-> 0], NonzeroIdx(X), 0, W, boutcrit)
    IN {k \in DOMAIN X : r[2][k] = 2}
\* [k, k + len) holds exactly bout_fraction * len qualifying epochs
ExactFraction(k, len) ==
    Cardinality(QualifyingIn(k, k + len)) * boutcrit[2] = len * boutcrit[1]

\* C24: under all four policies the fraction test is strict: a W-window
\* holding exactly bout_fraction * W qualifying epochs is never accepted as
\* a bout window, and under policy 1 a span is never extended to a length
\* at which the qualifying count equals bout_fraction times the length.
C24_FractionTestStrict ==
    (Done /\ ValidMetric /\ W >= 1 /\ ret.kind = "return") =>
        /\ \A k \in AcceptedWindowStarts :
              /\ k + W <= Size(X)
              /\ ~ExactFraction(k, W)
              /\ Cardinality(QualifyingIn(k, k + W)) * boutcrit[2] > W * boutcrit[1]
        /\ boutmetric = 1 =>
              \A j \in DOMAIN AcceptedSpans :
                 \A len \in W .. AcceptedSpans[j][2] - AcceptedSpans[j][1] :
                    ~ExactFraction(AcceptedSpans[j][1], len)
        /\ boutmetric = 2 =>
              Bout2Marked = Covered(Bout2Starts(X, W, boutcrit), W, Size(X))

\* a window with exactly bout_fraction * W qualifying epochs was turned
\* down in a call that accepted another window
C24_Witness ==
    /\ Done /\ ValidMetric /\ W >= 1 /\ ret.kind = "return"
    /\ AcceptedWindowStarts # {}
    /\ \E k \in DOMAIN X :
          /\ X[k] = 1 /\ k + W < Size(X)
          /\ ExactFraction(k, W)
          /\ k \notin AcceptedWindowStarts

\* ---- the run lengths FragmentationEndpoints accumulates (Spec)
RECURSIVE SeqTotal(_)
SeqTotal(q) == IF q = << >> THEN 0 ELSE q[1] + SeqTotal(Tail(q))
\* the number of qualifying 60-second epochs of one block
QualifyingCount(block) == SumSlice(Mask(block, 1, 2), 0, Size(block))
RECURSIVE FedQualifying(_)
FedQualifying(blocks) ==
    IF blocks = << >> THEN 0
    ELSE QualifyingCount(blocks[1]) + FedQualifying(Tail(blocks))
IsFrag == constructed /\ calc = "FragmentationEndpoints"
LensComplete ==
    IsFrag =>
       /\ self.lens = LensOfBlocks(fed)
       /\ SeqTotal(self.lens) = FedQualifying(fed)
       /\ \A k \in DOMAIN self.lens : self.lens[k] >= 1
LensStep ==
    /\ (IsFrag /\ lastop' = "predict") =>
          /\ Len(self'.lens) >= Len(self.lens)
          /\ SubSeq(self'.lens, 1, Len(self.lens)) = self.lens
          /\ SeqTotal(self'.lens) = SeqTotal(self.lens) + QualifyingCount(lastcall'.block)
          /\ self'.i = <<lastcall'.i>>
    /\ (IsFrag /\ lastop' = "reset_cached" /\ FragHasPointers(self)) =>
          /\ self.i = <<lastcall.i>>
          /\ \A k \in 1 .. 5 :
                results'[FragNames[k]][lastcall.i] = FragStat(FragStatNames[k], self.lens)
          /\ \A c \in Columns, d \in Days :
                (c \notin Range(FragNames) \/ d # lastcall.i) =>
                    results'[c][d] = results[c][d]

\* C25: between two reset_cached calls FragmentationEndpoints.lens is the
\* concatenation, in call order, of the lengths of the maximal qualifying
\* runs of each ingested block; a later predict never alters or drops
\* earlier entries; the sum of lens is the number of qualifying epochs
\* ingested since the last reset; reset_cached computes the five
\* statistics from that list and writes them at the day index of the most
\* recent predict.
C25_LensAccumulates == []LensComplete /\ [][LensStep]_vars

\* two predicts that both added runs, the runs of the first still in place
C25_Witness ==
    /\ IsFrag /\ lastop = "predict" /\ Len(fed) = 2
    /\ RunLengths(Mask(fed[1], 1, 2)) # << >>
    /\ RunLengths(Mask(fed[2], 1, 2)) # << >>
    /\ self.lens = RunLengths(Mask(fed[1], 1, 2)) \o RunLengths(Mask(fed[2], 1, 2))

\* ---- add_metrics and the other Sleep instances (SpecSleep)
\* C26: add_metrics called on one Sleep instance changes only that
\* instance's metrics: a predict call on an instance add_metrics was never
\* called on reserves columns for and computes exactly the default metrics;
\* and an add_metrics call that raises ValueError leaves the metric list
\* unchanged.
C26_AddMetricsOwnInstanceOnly ==
    /\ [](spc \in {"loop", "done"} /\ inst \notin adders =>
             /\ init_params = DefaultParams
             /\ DOMAIN sleep = SleepColumns(DefaultParams))
    /\ [][(nadds' = nadds + 1 /\ add_raised' = "ValueError") => params' = params]_vars

====
